---- MODULE Spec2Model ----
(***************************************************************************)
(* Tag reconciliation scripts of the repository:                           *)
(*   src/src/tag_eventbridge.py  EventBridgeTagger (rules)                  *)
(*   src/src/tag_s3_new.py       S3BucketTagger (buckets)                   *)
(*   src/src/tag_s3.py           apply_tags / main (buckets)                *)
(* Strings whose characters matter (names, patterns, tag values, the       *)
(* user's answer) are sequences of one-character strings.                  *)
(***************************************************************************)
EXTENDS Integers, Sequences, FiniteSets, TLC

----------------------------------------------------------------------------
(* Bounds of the model *)

\* rules in the account
MaxRules == 3
\* rules per page returned by the list_rules paginator
PageSize == 2
\* depth at which the model stops following the throttling recursion
MaxDepth == 4
\* buckets in the account
MaxBuckets == 2
\* S3 operations run one after another
MaxRuns == 2
\* buckets the remote fails for in a run sequence
MaxFaulty == 1

----------------------------------------------------------------------------
(* Tag maps: Python dicts from tag key to tag value *)

Keys == {"owner", "project"}

\* sorted(...) over tag keys
KeyOrder == <<"owner", "project">>

Values == {<<>>, <<" ">>, <<"1">>, <<"2">>}

TagMaps == UNION {[D -> Values] : D \in SUBSET Keys}

EmptyMap == [k \in {} |-> <<>>]

\* {**a, **b}
Merge(a, b) ==
    [k \in (DOMAIN a) \cup (DOMAIN b) |-> IF k \in DOMAIN b THEN b[k] ELSE a[k]]

\* str.strip(): leading and trailing whitespace removed
RECURSIVE LStrip(_)
LStrip(s) == IF s # <<>> /\ Head(s) = " " THEN LStrip(Tail(s)) ELSE s

RECURSIVE RStrip(_)
RStrip(s) ==
    IF s # <<>> /\ s[Len(s)] = " " THEN RStrip(SubSeq(s, 1, Len(s) - 1)) ELSE s

Strip(s) == RStrip(LStrip(s))

\* str.lower() on the characters an answer is typed with
LowerChar(c) ==
    CASE c = "Y" -> "y"
      [] c = "E" -> "e"
      [] c = "S" -> "s"
      [] c = "N" -> "n"
      [] c = "O" -> "o"
      [] OTHER -> c

Lower(s) == [i \in 1..Len(s) |-> LowerChar(s[i])]

----------------------------------------------------------------------------
(* EventBridge: the remote account *)

RuleIds == 1..MaxRules

\* names of the rules the account lists, in listing order (repeating)
RuleNamePool ==
    << <<"t","e","s","t">>, <<"x","n","e","x">>, <<"o","t","h","e","r">>,
       <<"T","e","s","t">> >>

RuleName(i) == RuleNamePool[((i - 1) % Len(RuleNamePool)) + 1]

RuleArn(i) == <<"arn", i>>

\* name_patterns of main()
NamePatterns == { <<"t","e","s","t">>, <<"n","e","x">>, <<"p","r","o">> }

\* pattern in rule_name
Contains(p, s) ==
    \E i \in 0..(Len(s) - Len(p)) : SubSeq(s, i + 1, i + Len(p)) = p

\* any(pattern in rule_name for pattern in name_patterns)
MatchesAny(name, patterns) == \E p \in patterns : Contains(p, name)

\* tags the rules carry before the run
RuleSeedMaps ==
    { EmptyMap, [k \in {"owner"} |-> <<"1">>],
      [k \in Keys |-> IF k = "owner" THEN <<"1">> ELSE <<"2">>] }

\* tags argument of tag_rules / apply_tags
RuleDesiredMaps ==
    { [k \in {"owner"} |-> <<"2">>], [k \in {"project"} |-> <<"1">>],
      [k \in Keys |-> IF k = "owner" THEN <<>> ELSE <<"2">>] }

\* answers of list_tags_for_resource
ListTagsAnswers == {"ok", "UnsupportedOperation", "OtherClientError", "BotoCoreError"}

\* values of the CI environment variable
CiValues == {"unset", "true", "TRUE", "1"}

\* what the user types at the prompt
Answers ==
    { <<"y","e","s">>, <<" ","Y","e","s"," ">>, <<"n","o">>, <<>>, <<"y">> }

VARIABLES
    ruleTags,          \* remote: rule id -> tag map
    nRules,            \* remote: number of rules the account lists
    tags,              \* the desired tags passed in
    pc,                \* position in tag_rules
    loaded,            \* rules fetched so far by the paginator
    cursor,            \* rules of the fetched pages already processed
    matched_rules,     \* list being built by list_rules_by_pattern
    rules,             \* value returned by list_rules_by_pattern
    listingError,      \* "Error listing EventBridge rules" was printed
    shown,             \* the plan loop of tag_rules: maps and printed diff per rule
    ciEnv,             \* os.getenv("CI")
    answer,            \* the text typed at the prompt
    prompted,          \* input() was called
    outcome,           \* how tag_rules ended
    tagResourceCalls,  \* tag_resource calls issued, in order, with the answer
    listTagsCalls,     \* list_tags_for_resource calls issued, with the answer
    apc,               \* position in apply_tags
    arg,               \* rule id apply_tags was called for
    depth,             \* nested apply_tags frames
    applyResult,       \* value returned by the outermost apply_tags
    bucketTags,        \* remote: bucket id -> tag map
    fault,             \* remote: bucket id -> how the remote fails for it
    listFails,         \* remote: list_buckets is rejected
    s3tags,            \* desired tags passed to the S3 operations
    merge_existing,    \* merge_existing argument
    dry_run,           \* dry_run argument
    op,                \* the S3 operation in progress and its arguments
    spc,               \* position in the S3 operation
    queue,             \* buckets still to process, the current one first
    existing_tags,     \* tags fetched for the current bucket
    results,           \* results mapping of tag_all_bucket
    s3outcome,         \* how the S3 operation ended
    mutations,         \* put/delete_bucket_tagging calls of the operation, each
                       \* with the tags fetched before it and the tags the
                       \* bucket holds when it executes
    backups,           \* backup_tags calls of the current apply_tags_to_bucket
    tagsBefore,        \* bucketTags when the operation began
    errorLog,          \* buckets main() of tag_s3.py logged an error for
    runNo,             \* operations started so far
    runLimit,          \* operations the caller makes
    prevRun,           \* the same call made just before the current one
    initTags           \* bucketTags before the first operation

applyVars == << apc, arg, depth, applyResult >>

ebVars ==
    << ruleTags, nRules, tags, pc, loaded, cursor, matched_rules, rules,
       listingError, shown, ciEnv, answer, prompted, outcome, tagResourceCalls,
       listTagsCalls, applyVars >>

s3Inputs == << fault, listFails, s3tags, merge_existing, dry_run, initTags, runLimit >>

s3Vars ==
    << bucketTags, s3Inputs, op, spc, queue, existing_tags, results, s3outcome,
       mutations, backups, tagsBefore, errorLog, runNo, prevRun >>

vars == << ebVars, s3Vars >>

\* rule.get('tagging_supported', True)
TaggingSupported(rule) ==
    IF "tagging_supported" \in DOMAIN rule THEN rule.tagging_supported ELSE TRUE

\* [rule for rule in rules if rule.get('tagging_supported', True)]
Taggable(rs) == SelectSeq(rs, TaggingSupported)

\* show_tag_diff without the line of a changed value (a mutant)
DiffLineWithoutChange(key, current_tags, new_tags) ==
    IF key \notin DOMAIN current_tags /\ key \in DOMAIN new_tags
    THEN << [sign |-> "+", key |-> key, new |-> new_tags[key]] >>
    ELSE IF key \in DOMAIN current_tags /\ key \notin DOMAIN new_tags
    THEN << [sign |-> "-", key |-> key, old |-> current_tags[key]] >>
    ELSE << >>

\* one printed line of show_tag_diff for a key, or none
DiffLine(key, current_tags, new_tags) ==
    IF key \notin DOMAIN current_tags /\ key \in DOMAIN new_tags
    THEN << [sign |-> "+", key |-> key, new |-> new_tags[key]] >>
    ELSE IF key \in DOMAIN current_tags /\ key \notin DOMAIN new_tags
    THEN << [sign |-> "-", key |-> key, old |-> current_tags[key]] >>
    ELSE IF key \in DOMAIN current_tags /\ key \in DOMAIN new_tags
            /\ current_tags[key] # new_tags[key]
    THEN << [sign |-> "~", key |-> key, old |-> current_tags[key],
             new |-> new_tags[key]] >>
    ELSE << >>

RECURSIVE DiffLines(_, _, _)
DiffLines(keys, current_tags, new_tags) ==
    IF keys = <<>> THEN <<>>
    ELSE DiffLine(Head(keys), current_tags, new_tags)
         \o DiffLines(Tail(keys), current_tags, new_tags)

\* a printed line that is no diff entry
Message(text) == [sign |-> "", text |-> text]

\* show_tag_diff: the lines printed after the header
ShowTagDiff(current_tags, new_tags, tagging_supported) ==
    IF ~tagging_supported THEN << Message("Not supported") >>
    ELSE LET all_keys == (DOMAIN current_tags) \cup (DOMAIN new_tags)
             sorted   == SelectSeq(KeyOrder, LAMBDA k : k \in all_keys)
             lines    == DiffLines(sorted, current_tags, new_tags)
         IN  IF lines = <<>> THEN << Message("No changes required") >> ELSE lines

\* merged_tags of tag_rules: {**current_tags, **tags}
MergedTags(current_tags, new) == Merge(current_tags, new)

\* the loop of tag_rules that shows the plan of every matched rule
RECURSIVE ShowAll(_, _)
ShowAll(rs, new) ==
    IF rs = <<>> THEN <<>>
    ELSE LET current_tags == Head(rs).current_tags
             merged_tags  == MergedTags(current_tags, new)
         IN  << [name         |-> Head(rs).name,
                 current_tags |-> current_tags,
                 merged_tags  |-> merged_tags,
                 lines        |-> ShowTagDiff(current_tags, merged_tags,
                                              TaggingSupported(Head(rs)))] >>
             \o ShowAll(Tail(rs), new)

\* no S3 operation takes part
S3Unused ==
    /\ bucketTags = <<>>
    /\ fault = <<>>
    /\ listFails = FALSE
    /\ s3tags = EmptyMap
    /\ merge_existing = TRUE
    /\ dry_run = FALSE
    /\ op = [name |-> "none"]
    /\ spc = "idle"
    /\ queue = <<>>
    /\ existing_tags = EmptyMap
    /\ results = <<>>
    /\ s3outcome = "none"
    /\ mutations = <<>>
    /\ backups = <<>>
    /\ tagsBefore = bucketTags
    /\ errorLog = {}
    /\ runNo = 0
    /\ runLimit = 0
    /\ prevRun = [name |-> "none"]
    /\ initTags = <<>>

InitEB ==
    /\ S3Unused
    /\ ruleTags \in [RuleIds -> RuleSeedMaps]
    /\ nRules \in 0..MaxRules
    /\ tags \in RuleDesiredMaps
    /\ pc = "list"
    /\ loaded = 0
    /\ cursor = 0
    /\ matched_rules = <<>>
    /\ rules = <<>>
    /\ listingError = FALSE
    /\ shown = <<>>
    /\ ciEnv \in CiValues
    /\ answer = <<>>
    /\ prompted = FALSE
    /\ outcome = "running"
    /\ tagResourceCalls = <<>>
    /\ listTagsCalls = <<>>
    /\ apc = "idle"
    /\ arg = 0
    /\ depth = 0
    /\ applyResult = "none"

\* the except clause of list_rules_by_pattern: print and return []
ListingFailed ==
    /\ rules' = <<>>
    /\ listingError' = TRUE
    /\ pc' = "plan"
    /\ UNCHANGED << ruleTags, nRules, tags, loaded, cursor, matched_rules, shown,
                    ciEnv, answer, prompted, outcome, tagResourceCalls, applyVars, s3Vars >>

\* the paginator fetches the next page
FetchPage ==
    /\ pc = "list"
    /\ cursor = loaded
    /\ loaded < nRules \/ loaded = 0
    /\ UNCHANGED listTagsCalls
    /\ \/ /\ loaded' = IF loaded + PageSize <= nRules THEN loaded + PageSize ELSE nRules
          /\ pc' = IF loaded' = cursor THEN "plan" ELSE "list"
          /\ rules' = IF loaded' = cursor THEN matched_rules ELSE rules
          /\ UNCHANGED << ruleTags, nRules, tags, cursor, matched_rules,
                          listingError, shown, ciEnv, answer, prompted, outcome,
                          tagResourceCalls, applyVars, s3Vars >>
       \/ ListingFailed

\* one rule of the current page: match, fetch its tags, record it
InspectRule ==
    /\ pc = "list"
    /\ cursor < loaded
    /\ LET i      == cursor + 1
           last   == (i = nRules)
           called(ans) ==
               listTagsCalls' =
                   Append(listTagsCalls, [arn |-> RuleArn(i), answer |-> ans])
           record(r) ==
               /\ matched_rules' = Append(matched_rules, r)
               /\ cursor' = i
               /\ pc' = IF last THEN "plan" ELSE "list"
               /\ rules' = IF last THEN matched_rules' ELSE rules
               /\ UNCHANGED << ruleTags, nRules, tags, loaded, listingError, shown,
                               ciEnv, answer, prompted, outcome, tagResourceCalls, applyVars, s3Vars >>
       IN  IF ~MatchesAny(RuleName(i), NamePatterns)
           THEN /\ cursor' = i
                /\ pc' = IF last THEN "plan" ELSE "list"
                /\ rules' = IF last THEN matched_rules ELSE rules
                /\ UNCHANGED << ruleTags, nRules, tags, loaded, matched_rules,
                                listingError, shown, ciEnv, answer, prompted,
                                outcome, tagResourceCalls, listTagsCalls,
                                applyVars, s3Vars >>
           ELSE \E ans \in ListTagsAnswers :
                  /\ called(ans)
                  /\ CASE ans = "ok" ->
                            record([name |-> RuleName(i), arn |-> RuleArn(i),
                                    current_tags |-> ruleTags[i]])
                       [] ans \in {"UnsupportedOperation", "OtherClientError"} ->
                            record([name |-> RuleName(i), arn |-> RuleArn(i),
                                    current_tags |-> EmptyMap,
                                    tagging_supported |-> FALSE])
                       [] OTHER -> ListingFailed

\* the run has a matched rule but the gate is never skipped (a mutant)
NoTaggableNever(rs) == FALSE

\* if not taggable_rules:
NoTaggable(rs) == Taggable(rs) = <<>>

\* tag_rules from the return of list_rules_by_pattern to the confirmation gate
Plan ==
    /\ pc = "plan"
    /\ IF rules = <<>>
       THEN /\ outcome' = "no_match"
            /\ pc' = "done"
            /\ shown' = shown
       ELSE /\ shown' = ShowAll(rules, tags)
            /\ IF NoTaggable(rules)
               THEN outcome' = "no_taggable" /\ pc' = "done"
               ELSE outcome' = outcome /\ pc' = "confirm"
    /\ UNCHANGED << ruleTags, nRules, tags, loaded, cursor, matched_rules, rules,
                    listingError, ciEnv, answer, prompted, tagResourceCalls,
                    listTagsCalls, applyVars, s3Vars >>

\* os.getenv("CI") == "true"
IsCi(env) == env = "true"

\* input(...).strip().lower() == "yes"
SaysYes(text) == Lower(Strip(text)) = <<"y","e","s">>

\* the confirmation gate and what follows it: both branches of the gate end in
\* an exception, so the apply loop and the completion report after it (the
\* rest of tag_rules) are never entered
Confirm ==
    /\ pc = "confirm"
    /\ \E text \in Answers :
         /\ IF IsCi(ciEnv)
            THEN /\ prompted' = FALSE
                 /\ answer' = answer
                 \* self.apply_tags(taggable_rules, tags): one argument short
                 /\ outcome' = "raised_TypeError"
            ELSE /\ prompted' = TRUE
                 /\ answer' = text
                 /\ IF SaysYes(text)
                    THEN outcome' = "raised_TypeError"
                    \* "Tagging aborted by user.", then the read of response
                    ELSE outcome' = "raised_NameError"
    /\ pc' = "done"
    /\ UNCHANGED << ruleTags, nRules, tags, loaded, cursor, matched_rules, rules,
                    listingError, shown, ciEnv, tagResourceCalls, listTagsCalls,
                    applyVars, s3Vars >>

NextEB == FetchPage \/ InspectRule \/ Plan \/ Confirm

SpecEB == InitEB /\ [][NextEB]_vars

----------------------------------------------------------------------------
(* EventBridgeTagger.show_tag_diff called for one rule, with any two maps *)

InitDiff ==
    /\ S3Unused
    /\ ruleTags \in [{1} -> TagMaps]
    /\ nRules = 1
    /\ tags \in TagMaps
    /\ pc = "diff"
    /\ loaded = 0
    /\ cursor = 0
    /\ matched_rules = <<>>
    /\ \/ rules = << [name |-> RuleName(1), arn |-> RuleArn(1),
                      current_tags |-> ruleTags[1]] >>
       \/ rules = << [name |-> RuleName(1), arn |-> RuleArn(1),
                      current_tags |-> ruleTags[1], tagging_supported |-> FALSE] >>
    /\ listingError = FALSE
    /\ shown = <<>>
    /\ ciEnv = "unset"
    /\ answer = <<>>
    /\ prompted = FALSE
    /\ outcome = "running"
    /\ tagResourceCalls = <<>>
    /\ listTagsCalls = <<>>
    /\ apc = "idle"
    /\ arg = 0
    /\ depth = 0
    /\ applyResult = "none"

\* show_tag_diff(rule['name'], current_tags, new_tags, tagging_supported)
CallShowTagDiff ==
    /\ pc = "diff"
    /\ shown' = << [name         |-> rules[1].name,
                    current_tags |-> rules[1].current_tags,
                    merged_tags  |-> tags,
                    lines        |-> ShowTagDiff(rules[1].current_tags, tags,
                                                 TaggingSupported(rules[1]))] >>
    /\ pc' = "done"
    /\ UNCHANGED << ruleTags, nRules, tags, loaded, cursor, matched_rules, rules,
                    listingError, ciEnv, answer, prompted, outcome,
                    tagResourceCalls, listTagsCalls, applyVars, s3Vars >>

NextDiff == CallShowTagDiff

SpecDiff == InitDiff /\ [][NextDiff]_vars

----------------------------------------------------------------------------
(* EventBridgeTagger.apply_tags called for one rule *)

\* answers of tag_resource: success, the error codes apply_tags compares with
\* (as spelled in the code), the throttling code of the service, another
\* ClientError code, an exception that is no ClientError
TagResourceAnswers ==
    { "ok", "AccessDeniedException", "ResourceNotFound", "unsupported ",
      "ThrottlingExcep", "ThrottlingException", "OtherClientError",
      "RuntimeError" }

\* the remote's TagResource: the given tags are added to the rule's tags
TagResourceEffect(current, sent) == Merge(current, sent)

InitApply ==
    /\ S3Unused
    /\ ruleTags \in [RuleIds -> RuleSeedMaps]
    /\ nRules = MaxRules
    /\ tags \in RuleDesiredMaps
    /\ pc = "direct"
    /\ loaded = 0
    /\ cursor = 0
    /\ matched_rules = <<>>
    /\ rules = <<>>
    /\ listingError = FALSE
    /\ shown = <<>>
    /\ ciEnv = "unset"
    /\ answer = <<>>
    /\ prompted = FALSE
    /\ outcome = "running"
    /\ tagResourceCalls = <<>>
    /\ listTagsCalls = <<>>
    /\ apc = "call"
    /\ arg \in RuleIds
    /\ depth = 1
    /\ applyResult = "none"

runVars ==
    << nRules, tags, pc, loaded, cursor, matched_rules, rules, listingError,
       shown, ciEnv, answer, prompted, outcome, listTagsCalls >>

\* apply_tags retrying after a denied call as well (a mutant)
ApplyBranchRetryingDenied(code) ==
    CASE code = "ok" -> "return_true"
      [] code \in {"ThrottlingExcep", "AccessDeniedException"} -> "retry"
      [] OTHER -> "return_false"

\* the branch of apply_tags an answer of tag_resource leads to
ApplyBranch(code) ==
    CASE code = "ok" -> "return_true"
      [] code = "ThrottlingExcep" -> "retry"
      [] OTHER -> "return_false"

\* the try block of one apply_tags frame: tag_resource is called and answers
TagResource ==
    /\ apc = "call"
    /\ \E code \in TagResourceAnswers :
         /\ ApplyBranch(code) = "retry" => depth < MaxDepth
         /\ tagResourceCalls' =
                Append(tagResourceCalls,
                       [arn |-> RuleArn(arg), tags |-> tags, answer |-> code])
         /\ ruleTags' = IF code = "ok"
                        THEN [ruleTags EXCEPT ![arg] = TagResourceEffect(@, tags)]
                        ELSE ruleTags
         /\ CASE ApplyBranch(code) = "return_true" ->
                   /\ applyResult' = "True"
                   /\ apc' = "returned"
                   /\ depth' = 0
              [] ApplyBranch(code) = "retry" ->
                   /\ applyResult' = applyResult
                   /\ apc' = "sleep"
                   /\ depth' = depth
              [] OTHER ->
                   /\ applyResult' = "False"
                   /\ apc' = "returned"
                   /\ depth' = 0
    /\ UNCHANGED << arg, runVars, s3Vars >>

\* time.sleep(2); return self.apply_tags(rule_arn, rule_name, tags)
Retry ==
    /\ apc = "sleep"
    /\ apc' = "call"
    /\ depth' = depth + 1
    /\ UNCHANGED << ruleTags, tagResourceCalls, arg, applyResult, runVars, s3Vars >>

NextApply == TagResource \/ Retry

SpecApply == InitApply /\ [][NextApply]_vars

----------------------------------------------------------------------------
(* S3: the remote account *)

Buckets == 1..MaxBuckets

\* names of the buckets the account lists, in listing order
BucketNamePool ==
    << <<"d","e","v","1">>, <<"p","r","d">>, <<"d","e","v","2">> >>

BucketName(b) == BucketNamePool[((b - 1) % Len(BucketNamePool)) + 1]

\* how the remote treats a bucket: no failure, get_bucket_tagging rejected with
\* a ClientError other than NoSuchTagSet or failing with another exception,
\* the mutating call rejected with a ClientError or failing with another exception
Faults == {"none", "fetch_client", "fetch_runtime", "mutate_client", "mutate_runtime"}

\* tags the buckets carry before the first operation of a run sequence
BucketSeedMaps ==
    { EmptyMap, [k \in Keys |-> IF k = "owner" THEN <<"1">> ELSE <<"2">>] }

\* desired tags of a run sequence
S3DesiredMaps ==
    { [k \in {"owner"} |-> <<"2">>],
      [k \in Keys |-> IF k = "owner" THEN <<"2">> ELSE <<>>] }

\* bucket_filter values: none, or a substring of the name
BucketFilters == { <<>>, <<"d","e","v">> }

\* tag_keys values of remove_tags_from_bucket
RemoveKeySets == { {"owner"}, Keys }

\* REQUIRED_TAGS of tag_s3.py, on the keys of the model
REQUIRED_TAGS == [k \in Keys |-> IF k = "owner" THEN <<"1">> ELSE <<"2">>]

\* no EventBridge operation takes part
EBUnused ==
    /\ ruleTags = <<>>
    /\ nRules = 0
    /\ tags = EmptyMap
    /\ pc = "idle"
    /\ loaded = 0
    /\ cursor = 0
    /\ matched_rules = <<>>
    /\ rules = <<>>
    /\ listingError = FALSE
    /\ shown = <<>>
    /\ ciEnv = "unset"
    /\ answer = <<>>
    /\ prompted = FALSE
    /\ outcome = "none"
    /\ tagResourceCalls = <<>>
    /\ listTagsCalls = <<>>
    /\ apc = "idle"
    /\ arg = 0
    /\ depth = 0
    /\ applyResult = "none"

----------------------------------------------------------------------------
(* S3BucketTagger *)

\* the desired tags unfiltered (a mutant)
FilteredTagsUnfiltered(t) == t

\* {k: v for k, v in tags.items() if v.strip()}
FilteredTags(t) == [k \in {x \in DOMAIN t : Strip(t[x]) # <<>>} |-> t[k]]

\* final_tags merged whatever the mode (a mutant)
FinalTagsAlwaysMerged(existing, filtered, merge) == Merge(existing, filtered)

\* final_tags holding only the desired keys the bucket lacks (a mutant)
FinalTagsOfNewKeysOnly(existing, filtered, merge) ==
    [k \in (DOMAIN filtered) \ (DOMAIN existing) |-> filtered[k]]

\* final_tags of apply_tags_to_bucket
FinalTags(existing, filtered, merge) ==
    IF merge THEN Merge(existing, filtered) ELSE filtered

\* not bucket_filter or bucket_filter in bucket["Name"]
BucketMatches(filter, name) == filter = <<>> \/ Contains(filter, name)

\* filtered_buckets of tag_all_bucket
FilteredBuckets(filter) ==
    SelectSeq([b \in 1..MaxBuckets |-> b],
              LAMBDA b : BucketMatches(filter, BucketName(b)))

\* the apply is a dry run that must not mutate, ignoring the flag (a mutant)
ApplyIsDryIgnored == FALSE

\* if dry_run: of apply_tags_to_bucket
ApplyIsDry == dry_run

\* the removal is a dry run that must not mutate, ignoring the flag (a mutant)
RemoveIsDryIgnored == FALSE

\* if dry_run: of remove_tags_from_bucket
RemoveIsDry == dry_run

\* the tags named by the given keys kept instead of removed (a mutant)
RemainingTagsOfGivenKeys(existing, tag_keys) ==
    [k \in (DOMAIN existing) \cap tag_keys |-> existing[k]]

\* remaining_tags of remove_tags_from_bucket
RemainingTags(existing, tag_keys) ==
    [k \in (DOMAIN existing) \ tag_keys |-> existing[k]]

\* the answer of get_bucket_tagging for a bucket
FetchAnswer(b) ==
    CASE fault[b] = "fetch_client" -> "ClientError"
      [] fault[b] = "fetch_runtime" -> "RuntimeError"
      [] bucketTags[b] = EmptyMap -> "NoSuchTagSet"
      [] OTHER -> "ok"

\* get_bucket_tags when it returns: {} on NoSuchTagSet, the tag set otherwise
GetBucketTags(b) ==
    IF FetchAnswer(b) = "NoSuchTagSet" THEN EmptyMap ELSE bucketTags[b]

\* the answer of put_bucket_tagging / delete_bucket_tagging for a bucket
MutateAnswer(b) ==
    CASE fault[b] = "mutate_client" -> "ClientError"
      [] fault[b] = "mutate_runtime" -> "RuntimeError"
      [] OTHER -> "ok"

\* record of the operation that just ended, kept when the same call follows it
Ended(o) ==
    IF spc = "done" /\ o = op
    THEN [name |-> op.name, results |-> results, outcome |-> s3outcome]
    ELSE [name |-> "none"]

\* a caller starts an S3 operation: dry runs follow one another in any order,
\* a real run is followed by the same call again
Begin(o) ==
    /\ spc \in {"idle", "done"}
    /\ runNo < runLimit
    /\ (runNo > 0 /\ ~dry_run) => o = op
    /\ runNo' = runNo + 1
    /\ prevRun' = Ended(o)
    /\ op' = o
    /\ results' = <<>>
    /\ existing_tags' = EmptyMap
    /\ errorLog' = {}
    /\ mutations' = <<>>
    /\ backups' = <<>>
    /\ tagsBefore' = bucketTags
    /\ UNCHANGED << bucketTags, s3Inputs, ebVars >>

\* apply_tags_to_bucket / remove_tags_from_bucket returns v to its caller
Returns(v) ==
    IF op.name = "tag_all_bucket"
    THEN /\ results' = [x \in (DOMAIN results) \cup {Head(queue)} |->
                           IF x = Head(queue) THEN v ELSE results[x]]
         /\ queue' = Tail(queue)
         /\ spc' = IF Tail(queue) = <<>> THEN "done" ELSE "fetch"
         /\ s3outcome' = IF Tail(queue) = <<>> THEN "returned" ELSE s3outcome
    ELSE /\ results' = results
         /\ queue' = queue
         /\ spc' = "done"
         /\ s3outcome' = IF v THEN "True" ELSE "False"

\* an exception leaves the operation in progress
Raises(kind) ==
    /\ spc' = "done"
    /\ s3outcome' = kind
    /\ UNCHANGED << results, queue >>

\* tag_all_bucket: list, filter, then apply to each bucket in turn
CallTagAllBucket ==
    /\ \E filter \in BucketFilters :
         Begin([name |-> "tag_all_bucket", filter |-> filter])
    /\ IF ~listFails
       THEN /\ queue' = FilteredBuckets(op'.filter)
            /\ spc' = IF queue' = <<>> THEN "done" ELSE "fetch"
            /\ s3outcome' = IF queue' = <<>> THEN "returned" ELSE "running"
       ELSE \* list_buckets rejected: logged and raised again
            /\ queue' = <<>>
            /\ spc' = "done"
            /\ s3outcome' = "raised_ListFailed"

\* apply_tags_to_bucket called for one bucket
CallApplyTagsToBucket ==
    /\ \E b \in Buckets : Begin([name |-> "apply_tags_to_bucket", bucket |-> b])
    /\ queue' = << op'.bucket >>
    /\ spc' = "fetch"
    /\ s3outcome' = "running"

\* apply_tags_to_bucket: filter the desired tags, fetch the existing ones
ApplyFetch ==
    /\ spc = "fetch"
    /\ backups' = <<>>
    /\ CASE FetchAnswer(Head(queue)) = "ClientError" ->
              /\ Returns(FALSE)
              /\ existing_tags' = existing_tags
         [] FetchAnswer(Head(queue)) = "RuntimeError" ->
              /\ Raises("raised_RuntimeError")
              /\ existing_tags' = existing_tags
         [] OTHER ->
              /\ existing_tags' = GetBucketTags(Head(queue))
              /\ spc' = "backup"
              /\ UNCHANGED << results, queue, s3outcome >>
    /\ UNCHANGED << bucketTags, s3Inputs, op, mutations, tagsBefore, errorLog,
                    runNo, prevRun, ebVars >>

\* a backup attempt that dumps an empty map (a mutant)
BackupAttemptOfNothing(bucket_name, t, written) ==
    [bucket |-> bucket_name, tags |-> EmptyMap, written |-> written]

\* backup_tags: json.dump(tags) into the file named after the bucket; the write
\* succeeds, or it fails and the failure is logged
BackupAttempt(bucket_name, t, written) ==
    [bucket |-> bucket_name, tags |-> t, written |-> written]

\* a failed write leaves backup_tags as an exception (a mutant)
BackupRaisesOnFailure(written) == ~written

\* backup_tags raises to its caller: never, except Exception logs the failure
BackupRaises(written) == FALSE

\* self.backup_tags(bucket_name, existing_tags)
ApplyBackup ==
    /\ spc = "backup"
    /\ \E written \in BOOLEAN :
         /\ backups' = Append(backups, BackupAttempt(Head(queue), existing_tags, written))
         /\ IF BackupRaises(written)
            THEN Raises("raised_OSError")
            ELSE /\ spc' = "put"
                 /\ UNCHANGED << queue, results, s3outcome >>
    /\ UNCHANGED << bucketTags, s3Inputs, op, existing_tags, mutations,
                    tagsBefore, errorLog, runNo, prevRun, ebVars >>

\* apply_tags_to_bucket from the merge to its return
ApplyPut ==
    /\ spc = "put"
    /\ LET b     == Head(queue)
           final == FinalTags(existing_tags, FilteredTags(s3tags), merge_existing)
       IN  IF ApplyIsDry
           THEN /\ Returns(TRUE)
                /\ UNCHANGED << bucketTags, mutations >>
           ELSE /\ mutations' =
                       Append(mutations,
                              [call |-> "put", bucket |-> b, tags |-> final,
                               existing |-> existing_tags,
                               remote |-> bucketTags[b],
                               answer |-> MutateAnswer(b)])
                /\ CASE MutateAnswer(b) = "ClientError" ->
                          Returns(FALSE) /\ bucketTags' = bucketTags
                     [] MutateAnswer(b) = "RuntimeError" ->
                          Raises("raised_RuntimeError") /\ bucketTags' = bucketTags
                     [] OTHER ->
                          /\ bucketTags' = [bucketTags EXCEPT ![b] = final]
                          /\ Returns(TRUE)
    /\ UNCHANGED << s3Inputs, op, existing_tags, backups, tagsBefore, errorLog,
                    runNo, prevRun, ebVars >>

\* remove_tags_from_bucket called for one bucket
CallRemoveTags ==
    /\ \E b \in Buckets, ks \in RemoveKeySets :
         Begin([name |-> "remove_tags_from_bucket", bucket |-> b, tag_keys |-> ks])
    /\ queue' = << op'.bucket >>
    /\ spc' = "remove_fetch"
    /\ s3outcome' = "running"

\* remove_tags_from_bucket up to the dry-run return
RemoveFetch ==
    /\ spc = "remove_fetch"
    /\ CASE FetchAnswer(Head(queue)) = "ClientError" ->
              /\ Returns(FALSE)
              /\ existing_tags' = existing_tags
         [] FetchAnswer(Head(queue)) = "RuntimeError" ->
              /\ Raises("raised_RuntimeError")
              /\ existing_tags' = existing_tags
         [] OTHER ->
              /\ existing_tags' = GetBucketTags(Head(queue))
              /\ IF existing_tags' = EmptyMap \/ RemoveIsDry
                 THEN Returns(TRUE)
                 ELSE /\ spc' = "remove_mutate"
                      /\ UNCHANGED << results, queue, s3outcome >>
    /\ UNCHANGED << bucketTags, s3Inputs, op, mutations, backups, tagsBefore,
                    errorLog, runNo, prevRun, ebVars >>

\* remove_tags_from_bucket: put the remaining tags, or delete the tag set
RemoveMutate ==
    /\ spc = "remove_mutate"
    /\ LET b         == Head(queue)
           remaining == RemainingTags(existing_tags, op.tag_keys)
       IN  /\ mutations' =
                  Append(mutations,
                         [call |-> IF remaining # EmptyMap THEN "put" ELSE "delete",
                          bucket |-> b, tags |-> remaining,
                          existing |-> existing_tags,
                          remote |-> bucketTags[b],
                          answer |-> MutateAnswer(b)])
           /\ CASE MutateAnswer(b) = "ClientError" ->
                     Returns(FALSE) /\ bucketTags' = bucketTags
                [] MutateAnswer(b) = "RuntimeError" ->
                     Raises("raised_RuntimeError") /\ bucketTags' = bucketTags
                [] OTHER ->
                     /\ bucketTags' = [bucketTags EXCEPT ![b] = remaining]
                     /\ Returns(TRUE)
    /\ UNCHANGED << s3Inputs, op, existing_tags, backups, tagsBefore, errorLog,
                    runNo, prevRun, ebVars >>

----------------------------------------------------------------------------
(* tag_s3.py *)

\* main goes on to the next bucket, or ends
MainContinues ==
    /\ queue' = Tail(queue)
    /\ spc' = IF Tail(queue) = <<>> THEN "done" ELSE "old_fetch"
    /\ s3outcome' = IF Tail(queue) = <<>> THEN "returned" ELSE s3outcome

\* main: list the buckets, then apply_tags to each inside try/except Exception
CallMain ==
    /\ Begin([name |-> "main"])
    /\ IF ~listFails
       THEN /\ queue' = [b \in 1..MaxBuckets |-> b]
            /\ spc' = IF queue' = <<>> THEN "done" ELSE "old_fetch"
            /\ s3outcome' = IF queue' = <<>> THEN "returned" ELSE "running"
       ELSE \* list_buckets fails: outside the try, the exception leaves main
            /\ queue' = <<>>
            /\ spc' = "done"
            /\ s3outcome' = "raised_ListFailed"

\* get_existing_tags of tag_s3.py; what it raises is caught and logged by main
OldFetch ==
    /\ spc = "old_fetch"
    /\ IF FetchAnswer(Head(queue)) \in {"ClientError", "RuntimeError"}
       THEN /\ errorLog' = errorLog \cup {Head(queue)}
            /\ existing_tags' = existing_tags
            /\ MainContinues
       ELSE /\ existing_tags' = GetBucketTags(Head(queue))
            /\ spc' = "old_put"
            /\ UNCHANGED << errorLog, queue, s3outcome >>
    /\ UNCHANGED << bucketTags, s3Inputs, op, results, mutations, backups,
                    tagsBefore, runNo, prevRun, ebVars >>

\* apply_tags of tag_s3.py from the merge on; a failure is caught and logged
OldPut ==
    /\ spc = "old_put"
    /\ LET b            == Head(queue)
           updated_tags == Merge(existing_tags, REQUIRED_TAGS)
       IN  /\ mutations' =
                  Append(mutations,
                         [call |-> "put", bucket |-> b, tags |-> updated_tags,
                          existing |-> existing_tags,
                          remote |-> bucketTags[b],
                          answer |-> MutateAnswer(b)])
           /\ IF MutateAnswer(b) = "ok"
              THEN /\ bucketTags' = [bucketTags EXCEPT ![b] = updated_tags]
                   /\ errorLog' = errorLog
              ELSE /\ bucketTags' = bucketTags
                   /\ errorLog' = errorLog \cup {b}
    /\ MainContinues
    /\ UNCHANGED << s3Inputs, op, existing_tags, results, backups, tagsBefore,
                    runNo, prevRun, ebVars >>

----------------------------------------------------------------------------
(* Specifications of the S3 operations *)

\* the S3 side before the first operation
S3Start ==
    /\ EBUnused
    /\ bucketTags \in [Buckets -> BucketSeedMaps]
    /\ initTags = bucketTags
    /\ tagsBefore = bucketTags
    /\ listFails \in BOOLEAN
    /\ s3tags \in S3DesiredMaps
    /\ merge_existing \in BOOLEAN
    /\ op = [name |-> "none"]
    /\ spc = "idle"
    /\ queue = <<>>
    /\ existing_tags = EmptyMap
    /\ results = <<>>
    /\ s3outcome = "none"
    /\ mutations = <<>>
    /\ backups = <<>>
    /\ errorLog = {}
    /\ runNo = 0
    /\ prevRun = [name |-> "none"]

\* fault assignments with at most n failing buckets
FaultMaps(n) ==
    {f \in [Buckets -> Faults] : Cardinality({b \in Buckets : f[b] # "none"}) <= n}

\* one operation on an account, whatever the remote does
InitS3Run ==
    /\ S3Start
    /\ fault \in FaultMaps(MaxBuckets)
    /\ dry_run \in BOOLEAN
    /\ runLimit = 1

\* operations called one after another: dry runs against a remote that may
\* fail, real runs against a remote that does not
InitS3Seq ==
    /\ S3Start
    /\ dry_run \in BOOLEAN
    /\ fault \in FaultMaps(IF dry_run THEN MaxFaulty ELSE 0)
    /\ runLimit = MaxRuns

NextS3Run ==
    \/ CallTagAllBucket
    \/ CallApplyTagsToBucket
    \/ CallRemoveTags
    \/ CallMain
    \/ ApplyFetch
    \/ ApplyBackup
    \/ ApplyPut
    \/ RemoveFetch
    \/ RemoveMutate
    \/ OldFetch
    \/ OldPut

SpecS3Run == InitS3Run /\ [][NextS3Run]_vars

NextS3Seq ==
    \/ CallTagAllBucket
    \/ CallApplyTagsToBucket
    \/ CallRemoveTags
    \/ ApplyFetch
    \/ ApplyBackup
    \/ ApplyPut
    \/ RemoveFetch
    \/ RemoveMutate

SpecS3Seq == InitS3Seq /\ [][NextS3Seq]_vars

\* one call of apply_tags_to_bucket, for every current and desired tag map
InitS3Call ==
    /\ EBUnused
    /\ \E t \in TagMaps : bucketTags = [b \in Buckets |-> IF b = 1 THEN t ELSE EmptyMap]
    /\ initTags = bucketTags
    /\ \E f \in Faults : fault = [b \in Buckets |-> IF b = 1 THEN f ELSE "none"]
    /\ listFails = FALSE
    /\ s3tags \in TagMaps
    /\ merge_existing \in BOOLEAN
    /\ dry_run \in BOOLEAN
    /\ op = [name |-> "apply_tags_to_bucket", bucket |-> 1]
    /\ spc = "fetch"
    /\ queue = << 1 >>
    /\ existing_tags = EmptyMap
    /\ results = <<>>
    /\ s3outcome = "running"
    /\ mutations = <<>>
    /\ backups = <<>>
    /\ tagsBefore = bucketTags
    /\ errorLog = {}
    /\ runNo = 1
    /\ runLimit = 1
    /\ prevRun = [name |-> "none"]

NextS3Call == ApplyFetch \/ ApplyBackup \/ ApplyPut

SpecS3Call == InitS3Call /\ [][NextS3Call]_vars

\* tag sets another writer of the account puts on a bucket
WriterMaps ==
    BucketSeedMaps \cup { [k \in {"project"} |-> <<"1">>] }

\* another writer changes the tags of the bucket being processed, between the
\* get_bucket_tagging and the put_bucket_tagging of apply_tags_to_bucket
OtherWriter ==
    /\ spc \in {"backup", "put"}
    /\ \E t \in WriterMaps :
         /\ t # bucketTags[Head(queue)]
         /\ bucketTags' = [bucketTags EXCEPT ![Head(queue)] = t]
    /\ UNCHANGED << s3Inputs, op, spc, queue, existing_tags, results, s3outcome,
                    mutations, backups, tagsBefore, errorLog, runNo, prevRun,
                    ebVars >>

\* one apply_tags_to_bucket without dry_run on an account another writer changes
InitS3Race ==
    /\ S3Start
    /\ fault \in FaultMaps(MaxFaulty)
    /\ dry_run = FALSE
    /\ runLimit = 1

NextS3Race ==
    \/ CallApplyTagsToBucket
    \/ ApplyFetch
    \/ ApplyBackup
    \/ ApplyPut
    \/ OtherWriter

SpecS3Race == InitS3Race /\ [][NextS3Race]_vars

\* tag_keys values of one remove_tags_from_bucket: any keys, on the bucket or not
RemoveKeyPool == Keys \cup {"env"}

\* one call of remove_tags_from_bucket, for every current tag map and key list
InitS3Remove ==
    /\ EBUnused
    /\ \E t \in TagMaps : bucketTags = [b \in Buckets |-> IF b = 1 THEN t ELSE EmptyMap]
    /\ initTags = bucketTags
    /\ \E f \in Faults : fault = [b \in Buckets |-> IF b = 1 THEN f ELSE "none"]
    /\ listFails = FALSE
    /\ s3tags = EmptyMap
    /\ merge_existing = TRUE
    /\ dry_run \in BOOLEAN
    /\ \E ks \in SUBSET RemoveKeyPool :
         op = [name |-> "remove_tags_from_bucket", bucket |-> 1, tag_keys |-> ks]
    /\ spc = "remove_fetch"
    /\ queue = << 1 >>
    /\ existing_tags = EmptyMap
    /\ results = <<>>
    /\ s3outcome = "running"
    /\ mutations = <<>>
    /\ backups = <<>>
    /\ tagsBefore = bucketTags
    /\ errorLog = {}
    /\ runNo = 1
    /\ runLimit = 1
    /\ prevRun = [name |-> "none"]

NextS3Remove == RemoveFetch \/ RemoveMutate

SpecS3Remove == InitS3Remove /\ [][NextS3Remove]_vars

----------------------------------------------------------------------------
(* Claims about tag_rules and apply_tags *)

\* the confirmation of tag_rules was granted
Confirmed == IsCi(ciEnv) \/ (prompted /\ SaysYes(answer))

\* the tag_resource calls a full apply phase issues: one per taggable rule, in
\* order, carrying the rule's current tags merged with the desired tags
ExpectedApplyCalls ==
    [i \in 1..Len(Taggable(rules)) |->
        [arn  |-> Taggable(rules)[i].arn,
         tags |-> Merge(Taggable(rules)[i].current_tags, tags)]]

IssuedApplyCalls ==
    [i \in 1..Len(tagResourceCalls) |->
        [arn |-> tagResourceCalls[i].arn, tags |-> tagResourceCalls[i].tags]]

\* C1: a run of tag_rules with a taggable rule and a granted confirmation ends
\* with one apply per taggable rule issued and the completion report reached.
C1_ConfirmedRunApplies ==
    (pc = "done" /\ Taggable(rules) # <<>> /\ Confirmed)
        => (outcome = "completed" /\ IssuedApplyCalls = ExpectedApplyCalls)

\* C2: a run of tag_rules with a taggable rule, no CI and an answer other than
\* "yes" issues no tag_resource call and ends as cancelled, without an error.
C2_DeclinedRunIsSkipped ==
    (pc = "done" /\ Taggable(rules) # <<>> /\ ~IsCi(ciEnv) /\ prompted
        /\ ~SaysYes(answer))
        => (tagResourceCalls = <<>> /\ outcome = "cancelled")

\* C3: one apply_tags issues at most two tag_resource calls, and after a second
\* throttled call it has returned False.
C3_ThrottleRetriedOnce ==
    /\ Len(tagResourceCalls) <= 2
    /\ (Len(tagResourceCalls) = 2 /\ tagResourceCalls[2].answer = "ThrottlingExcep")
          => (apc = "returned" /\ applyResult = "False")

\* C5: after a listing failure the rules matched so far are still the result
\* of list_rules_by_pattern, and the failure was reported.
C5_PartialMatchesKept ==
    (pc \in {"plan", "confirm", "done"} /\ listingError) => rules = matched_rules

----------------------------------------------------------------------------
(* Claims about the S3 operations and the merge *)

\* a tag value made of whitespace only
IsBlankValue(v) == \A i \in 1..Len(v) : v[i] = " "

\* the keys the desired map gives a non-blank value
NonBlankKeys(t) == {k \in DOMAIN t : ~IsBlankValue(t[k])}

\* the buckets tag_all_bucket has to process
Selected ==
    {b \in Buckets : op.filter = <<>> \/ Contains(op.filter, BucketName(b))}

\* the result a bucket gets when only its own fetch and put decide it
OwnResult(b) ==
    /\ fault[b] \notin {"fetch_client", "fetch_runtime"}
    /\ dry_run \/ fault[b] \notin {"mutate_client", "mutate_runtime"}

\* C4: a run of tag_all_bucket (or of main of tag_s3.py) whose listing
\* succeeded ends with the summary, every selected bucket processed and given
\* the result its own fetch and put decide; no per-bucket failure leaves the run.
C4_FailuresIsolated ==
    /\ (spc = "done" /\ op.name = "tag_all_bucket" /\ s3outcome # "raised_ListFailed")
          => /\ s3outcome = "returned"
             /\ DOMAIN results = Selected
             /\ \A b \in Selected : results[b] = OwnResult(b)
    /\ (spc = "done" /\ op.name = "main" /\ s3outcome # "raised_ListFailed")
          => /\ s3outcome = "returned"
             /\ errorLog = {b \in Buckets : fault[b] # "none"}

C7_MergedMapOfRules ==
    \A i \in DOMAIN shown :
        LET cur == shown[i].current_tags
            m   == shown[i].merged_tags
        IN  /\ DOMAIN m = (DOMAIN cur) \cup NonBlankKeys(tags)
            /\ \A k \in DOMAIN m :
                 m[k] = IF k \in NonBlankKeys(tags) THEN tags[k] ELSE cur[k]

\* the same statement for the puts of apply_tags_to_bucket in merge mode and
\* of apply_tags of tag_s3.py
MergedMapOfBuckets ==
    \A i \in DOMAIN mutations :
        LET cur     == mutations[i].existing
            m       == mutations[i].tags
            desired == IF op.name = "main" THEN REQUIRED_TAGS ELSE s3tags
        IN  (op.name = "main"
               \/ (merge_existing /\ op.name \in {"apply_tags_to_bucket", "tag_all_bucket"}))
            => /\ DOMAIN m = (DOMAIN cur) \cup NonBlankKeys(desired)
               /\ \A k \in DOMAIN m :
                    m[k] = IF k \in NonBlankKeys(desired) THEN desired[k] ELSE cur[k]

\* C8: in replace mode the tag set sent by put_bucket_tagging is exactly the
\* desired tags with a non-blank value, and it is what the bucket holds once
\* the remote has accepted it.
C8_ReplaceSendsDesiredOnly ==
    \A i \in DOMAIN mutations :
        ~merge_existing =>
            /\ mutations[i].tags = [k \in NonBlankKeys(s3tags) |-> s3tags[k]]
            /\ mutations[i].answer = "ok"
                  => bucketTags[mutations[i].bucket] = mutations[i].tags

\* an accepted put in replace mode on a bucket holding a key the desired map
\* does not name
C8_Witness ==
    /\ ~merge_existing
    /\ mutations # <<>>
    /\ mutations[1].answer = "ok"
    /\ \E k \in DOMAIN mutations[1].existing : k \notin DOMAIN s3tags

\* C9: with dry_run no mutating call is issued, every bucket holds the tags it
\* held before the first operation, and a call repeated right after itself
\* ends with the same result mapping and the same outcome.
C9_DryRunNeverMutates ==
    dry_run =>
        /\ mutations = <<>>
        /\ bucketTags = initTags
        /\ (spc = "done" /\ prevRun.name # "none")
              => (results = prevRun.results /\ s3outcome = prevRun.outcome)

\* a second dry tag_all_bucket has ended, with a bucket reported True that a
\* real run would have changed
C9_Witness ==
    /\ dry_run
    /\ spc = "done"
    /\ prevRun.name = "tag_all_bucket"
    /\ \E b \in DOMAIN results :
         /\ results[b]
         /\ FinalTags(initTags[b], FilteredTags(s3tags), merge_existing) # initTags[b]

\* C10 as stated: apply_tags_to_bucket with dry_run always returns True.
C10_DryRunAlwaysApplied ==
    (spc = "done" /\ dry_run) => s3outcome = "True"

\* C10 amended: apply_tags_to_bucket with dry_run returns True whenever the
\* fetch of the current tags succeeds, whatever the put would answer; it
\* returns False when the fetch is rejected with a client error, and the
\* exception leaves it when the fetch fails otherwise.
C10_DryRunAppliedWhenFetched ==
    (spc = "done" /\ dry_run) =>
        s3outcome = CASE fault[op.bucket] = "fetch_client" -> "False"
                      [] fault[op.bucket] = "fetch_runtime" -> "raised_RuntimeError"
                      [] OTHER -> "True"

\* a dry apply ended on a bucket whose fetch the remote rejects
C10_Witness ==
    /\ spc = "done"
    /\ dry_run
    /\ fault[op.bucket] = "fetch_client"
    /\ s3outcome = "False"

----------------------------------------------------------------------------
(* Claims about the backup *)

\* the backup attempt of the apply in progress matches its fetch
BackedUp(b) ==
    /\ Len(backups) = 1
    /\ backups[1].bucket = b
    /\ backups[1].tags = existing_tags

\* C11: in a run of tag_all_bucket every put_bucket_tagging for a bucket comes
\* after one backup attempt of the same apply, for the same bucket, holding
\* exactly the tags fetched from the bucket (which are the tags the bucket
\* holds before the change), and nothing mutates between the fetch and the
\* backup.
C11_BackupPrecedesPut ==
    /\ [](op.name = "tag_all_bucket" =>
            /\ spc = "put" =>
                  /\ BackedUp(Head(queue))
                  /\ existing_tags = bucketTags[Head(queue)]
            /\ spc = "backup" => existing_tags = bucketTags[Head(queue)])
    /\ [][(op.name = "tag_all_bucket" /\ mutations' # mutations) =>
            /\ spc = "put"
            /\ BackedUp(Head(queue))
            /\ Len(mutations') = Len(mutations) + 1
            /\ mutations'[Len(mutations')].bucket = Head(queue)
            /\ mutations'[Len(mutations')].existing = backups[1].tags
            /\ backups[1].tags = bucketTags[Head(queue)]]_vars
    /\ [][(op.name = "tag_all_bucket" /\ spc \in {"fetch", "backup"}) =>
            (mutations' = mutations /\ bucketTags' = bucketTags)]_vars

\* a put of tag_all_bucket changed a bucket that held tags, after a backup
\* attempt whose write failed
C11_Witness ==
    /\ op.name = "tag_all_bucket"
    /\ mutations # <<>>
    /\ mutations[Len(mutations)].answer = "ok"
    /\ mutations[Len(mutations)].existing # EmptyMap
    /\ mutations[Len(mutations)].tags # mutations[Len(mutations)].existing
    /\ backups # <<>>
    /\ backups[1].bucket = mutations[Len(mutations)].bucket
    /\ ~backups[1].written

\* what one apply_tags_to_bucket on bucket b sends once its fetch has
\* succeeded, from its arguments and the remote alone
PutOf(b) ==
    IF dry_run THEN <<>>
    ELSE << [call |-> "put", bucket |-> b,
             tags |-> FinalTags(initTags[b], FilteredTags(s3tags), merge_existing),
             existing |-> initTags[b],
             remote |-> initTags[b],
             answer |-> MutateAnswer(b)] >>

\* what it returns then
OutcomeOf(b) ==
    CASE dry_run -> "True"
      [] fault[b] = "mutate_client" -> "False"
      [] fault[b] = "mutate_runtime" -> "raised_RuntimeError"
      [] OTHER -> "True"

\* C12: whether the backup file was written or not, the step after the backup
\* attempt is the rest of the apply, and the apply ends having sent the put
\* (bucket, tag set) and returned the outcome that its arguments and the
\* remote alone decide: the same as with a backup that succeeded.
C12_BackupFailureDoesNotBlock ==
    /\ [][spc = "backup" =>
            (spc' = "put" /\ mutations' = mutations /\ bucketTags' = bucketTags
               /\ existing_tags' = existing_tags /\ s3outcome' = s3outcome)]_vars
    /\ []((spc = "done" /\ backups # <<>>) =>
            /\ mutations = PutOf(op.bucket)
            /\ s3outcome = OutcomeOf(op.bucket))

\* an apply whose backup write failed has put new tags and returned True
C12_Witness ==
    /\ spc = "done"
    /\ backups # <<>>
    /\ ~backups[1].written
    /\ mutations # <<>>
    /\ mutations[1].answer = "ok"
    /\ mutations[1].tags # mutations[1].existing
    /\ s3outcome = "True"

----------------------------------------------------------------------------
(* Claims about unsupported rules and the plan of tag_rules *)

\* the rules whose tag fetch reported that tagging is unsupported
UnsupportedArns ==
    {listTagsCalls[i].arn : i \in {j \in DOMAIN listTagsCalls :
                                      listTagsCalls[j].answer = "UnsupportedOperation"}}

ArnsOf(rs) == {rs[i].arn : i \in DOMAIN rs}

\* list_rules_by_pattern has returned to tag_rules
Listed == pc \in {"plan", "confirm", "done"}

\* C13: once the rules are listed, every rule whose tag fetch reported
\* unsupported is in the matched set and not in the taggable set, no
\* tag_resource call names it, and the matched count is the taggable count
\* plus the number of such rules.
C13_UnsupportedCounted ==
    Listed =>
        /\ UnsupportedArns \subseteq ArnsOf(rules)
        /\ UnsupportedArns \cap ArnsOf(Taggable(rules)) = {}
        /\ \A i \in DOMAIN tagResourceCalls :
              tagResourceCalls[i].arn \notin UnsupportedArns
        /\ Len(rules) = Len(Taggable(rules)) + Cardinality(UnsupportedArns)

\* C14: with a matched rule and no taggable rule, tag_rules shows the plan of
\* every matched rule and ends there: the prompt is not asked, whatever the
\* value of CI, and no tag_resource call is issued.
C14_NoTaggableSkipsGate ==
    (Listed /\ rules # <<>> /\ Taggable(rules) = <<>>) =>
        /\ pc \in {"plan", "done"}
        /\ ~prompted
        /\ tagResourceCalls = <<>>
        /\ pc = "done" => (outcome = "no_taggable" /\ Len(shown) = Len(rules))

\* a run with CI set to true ended after the plan of two unsupported rules
C14_Witness ==
    /\ pc = "done"
    /\ Len(rules) = 2
    /\ Taggable(rules) = <<>>
    /\ ciEnv = "true"
    /\ outcome = "no_taggable"
    /\ Len(shown) = 2

----------------------------------------------------------------------------
(* Claims about remove_tags_from_bucket *)

\* the keys a bucket keeps when the given keys are removed
KeptKeys(b) == (DOMAIN initTags[b]) \ op.tag_keys

\* C15: a remove_tags_from_bucket without dry_run whose fetch succeeded ends
\* with no mutating call when the bucket has no tags, and otherwise with
\* exactly one: delete_bucket_tagging when no key is kept, else
\* put_bucket_tagging with exactly the kept keys and their values.
C15_RemoveDeletesIffNothingLeft ==
    LET b == op.bucket
    IN  /\ Len(mutations) <= 1
        /\ (spc = "done" /\ ~dry_run
               /\ fault[b] \notin {"fetch_client", "fetch_runtime"}) =>
              IF initTags[b] = EmptyMap
              THEN mutations = <<>>
              ELSE /\ Len(mutations) = 1
                   /\ mutations[1].bucket = b
                   /\ mutations[1].call \in {"put", "delete"}
                   /\ mutations[1].call = "delete" <=> KeptKeys(b) = {}
                   /\ mutations[1].call = "put" =>
                         mutations[1].tags = [k \in KeptKeys(b) |-> initTags[b][k]]

\* the tags of a bucket were deleted because every tag it held was named,
\* along with a key it did not hold
C15_Witness ==
    /\ spc = "done"
    /\ mutations # <<>>
    /\ mutations[1].call = "delete"
    /\ mutations[1].answer = "ok"
    /\ DOMAIN initTags[op.bucket] = {"owner"}
    /\ op.tag_keys = {"owner", "env"}
    /\ bucketTags[op.bucket] = EmptyMap
    /\ s3outcome = "True"

----------------------------------------------------------------------------
(* Claims about show_tag_diff *)

\* the diff entries among the printed lines
Entries(lines) == SelectSeq(lines, LAMBDA e : e.sign \in {"+", "-", "~"})

\* applying one entry: '+' inserts, '-' deletes, '~' overwrites
ApplyEntry(m, e) ==
    IF e.sign = "-"
    THEN [k \in (DOMAIN m) \ {e.key} |-> m[k]]
    ELSE [k \in (DOMAIN m) \cup {e.key} |-> IF k = e.key THEN e.new ELSE m[k]]

RECURSIVE ApplyEntries(_, _)
ApplyEntries(m, es) ==
    IF es = <<>> THEN m ELSE ApplyEntries(ApplyEntry(m, Head(es)), Tail(es))

\* position of a key in sorted order
KeyRank(k) == CHOOSE i \in DOMAIN KeyOrder : KeyOrder[i] = k

\* the entries are the diff of cur and des: one per differing key, in sorted
\* key order, with the sign and values of its case, leading from cur to des
IsDiffOf(es, cur, des) ==
    /\ {es[i].key : i \in DOMAIN es} =
          {k \in (DOMAIN cur) \cup (DOMAIN des) :
              k \notin DOMAIN cur \/ k \notin DOMAIN des \/ cur[k] # des[k]}
    /\ \A i, j \in DOMAIN es : i < j => KeyRank(es[i].key) < KeyRank(es[j].key)
    /\ \A i \in DOMAIN es :
          LET k == es[i].key
          IN  CASE es[i].sign = "+" ->
                     k \notin DOMAIN cur /\ k \in DOMAIN des /\ es[i].new = des[k]
                [] es[i].sign = "-" ->
                     k \in DOMAIN cur /\ k \notin DOMAIN des /\ es[i].old = cur[k]
                [] es[i].sign = "~" ->
                     /\ k \in DOMAIN cur /\ k \in DOMAIN des
                     /\ es[i].old = cur[k] /\ es[i].new = des[k]
                [] OTHER -> FALSE
    /\ ApplyEntries(cur, es) = des
    /\ cur = des => es = <<>>

\* C16 as stated: for all maps, the entries show_tag_diff prints are the diff
\* of the two maps it was given.
C16_DiffIsExact ==
    \A i \in DOMAIN shown :
        IsDiffOf(Entries(shown[i].lines), shown[i].current_tags, shown[i].merged_tags)

\* C16 amended: for all maps, the entries show_tag_diff prints with
\* tagging_supported true are the diff of the two maps; with tagging_supported
\* false it prints "Not supported" and no entry, whatever the maps.
C16_DiffIsExactWhenSupported ==
    \A i \in DOMAIN shown :
        IF TaggingSupported(rules[i])
        THEN IsDiffOf(Entries(shown[i].lines), shown[i].current_tags,
                      shown[i].merged_tags)
        ELSE shown[i].lines = << Message("Not supported") >>

\* a diff with a removed key and a changed value was printed
C16_Witness ==
    /\ pc = "done"
    /\ Len(shown) = 1
    /\ Len(Entries(shown[1].lines)) = 2
    /\ shown[1].lines[1].sign = "-"
    /\ shown[1].lines[2].sign = "~"

----------------------------------------------------------------------------
(* Claims about failures of the tag fetch and of tag_resource *)

\* the rules whose tag fetch was rejected with another client error
FetchFailedArns ==
    {listTagsCalls[i].arn : i \in {j \in DOMAIN listTagsCalls :
                                      listTagsCalls[j].answer = "OtherClientError"}}

\* C17: only a fetch that reported unsupported leaves a matched rule recorded
\* as not supporting tags, and the record of a rule whose fetch failed
\* otherwise differs, beyond name and arn, from the record of an unsupported rule.
C17_FetchFailureDistinct ==
    /\ \A i \in DOMAIN matched_rules :
          ~TaggingSupported(matched_rules[i])
              => matched_rules[i].arn \in UnsupportedArns
    /\ \A i, j \in DOMAIN matched_rules :
          (matched_rules[i].arn \in FetchFailedArns
             /\ matched_rules[j].arn \in UnsupportedArns)
              => [matched_rules[i] EXCEPT !.name = <<>>, !.arn = <<>>]
                   # [matched_rules[j] EXCEPT !.name = <<>>, !.arn = <<>>]

\* the answers of tag_resource that are failures other than the throttling one
OtherFailures == TagResourceAnswers \ {"ok", "ThrottlingExcep"}

\* C18: a tag_resource call of apply_tags that fails with an error other than
\* the throttling error is the last call of that apply: no call follows it,
\* the apply has returned False, nothing was raised, and when it is the first
\* call it is the only one.
C18_OtherErrorsFailOnce ==
    \A i \in DOMAIN tagResourceCalls :
        tagResourceCalls[i].answer \in OtherFailures =>
            /\ i = Len(tagResourceCalls)
            /\ \A j \in 1..(i - 1) : tagResourceCalls[j].answer = "ThrottlingExcep"
            /\ apc = "returned"
            /\ applyResult = "False"

\* an apply ended after one denied call
C18_Witness ==
    /\ Len(tagResourceCalls) = 1
    /\ tagResourceCalls[1].answer = "AccessDeniedException"
    /\ apc = "returned"
    /\ applyResult = "False"

----------------------------------------------------------------------------
(* Claims about repeated and concurrent applies *)

\* C19: in merge mode, every tag the bucket holds when put_bucket_tagging
\* executes, under a key that is not a desired key, is in the tag set the put
\* leaves on the bucket, with the same value.
C19_MergeKeepsConcurrentTags ==
    \A i \in DOMAIN mutations :
        (merge_existing /\ op.name = "apply_tags_to_bucket"
           /\ mutations[i].answer = "ok") =>
            \A k \in (DOMAIN mutations[i].remote) \ (DOMAIN s3tags) :
                /\ k \in DOMAIN mutations[i].tags
                /\ mutations[i].tags[k] = mutations[i].remote[k]

\* a second tag_all_bucket with the arguments of the first has ended, without
\* dry_run, the listing and every remote call having succeeded
SecondRealRunEnded ==
    /\ ~dry_run
    /\ spc = "done"
    /\ op.name = "tag_all_bucket"
    /\ prevRun.name = "tag_all_bucket"
    /\ ~listFails
    /\ \A b \in Buckets : fault[b] = "none"

\* C20: after tag_all_bucket is run again with the same arguments, every
\* bucket holds the tags it held after the run before, and the run returns the
\* result mapping that run returned.
C20_ApplyTwiceIsIdempotent ==
    SecondRealRunEnded =>
        /\ bucketTags = tagsBefore
        /\ results = prevRun.results
        /\ s3outcome = prevRun.outcome

\* the second run ended on an account the first run had changed, having put
\* tags on a bucket again
C20_Witness ==
    /\ SecondRealRunEnded
    /\ tagsBefore # initTags
    /\ mutations # <<>>
    /\ \E b \in DOMAIN results : results[b] /\ tagsBefore[b] # initTags[b]

====
